---------------------------- MODULE Spec2Model ----------------------------
(***************************************************************************)
(* ERMrest model-level authorization: static ACLs with parent inheritance  *)
(* and right sufficiency (hasacls), dynamic ACL bindings (hasdynacls), and *)
(* the ACL storage interface (set_acl / delete_acl / AclDict).             *)
(*                                                                         *)
(* One catalog -> schema -> table -> column chain is modelled.  Each       *)
(* resource carries its in-memory acls map; the table also carries         *)
(* dynacls.  The metadata store holds the rows of the model_<restype>_acl  *)
(* and model_<restype>_dynacl tables.                                      *)
(***************************************************************************)
EXTENDS Naturals, Sequences, FiniteSets, TLC

VARIABLES
    acls,          \* resource -> (acl name -> <<>> when absent, <<members>> when set)
    dynacls,       \* resource -> (binding name -> <<>> when absent, <<binding>> when set)
    acl_store,     \* rows of _ermrest.model_<restype>_acl, same shape as acls
    dynacl_store,  \* rows of _ermrest.model_<restype>_dynacl, same shape as dynacls
    version,       \* number of _ermrest.model_change_event() calls so far
    attributes,    \* web.ctx.webauthn2_context.attributes of the current request
    ncalls,        \* number of calls made so far
    last,          \* the last call: what was asked, what it raised, what it returned
    annotations,   \* resource -> (annotation key -> <<>> when absent, <<value>> when set)
    annotation_store,  \* rows of _ermrest.model_<restype>_annotation, in heap order
    applied,       \* the last application of a function of the model: input and result
    columns,       \* Table.columns of the table in memory: column name -> <<position>>
    column_store   \* the table's columns in the database, in column order

vars == <<acls, dynacls, acl_store, dynacl_store, version, attributes, ncalls, last,
          annotations, annotation_store, applied, columns, column_store>>

\* What the ACL interface leaves alone.
aux == <<annotations, annotation_store, applied, columns, column_store>>

\* What the annotation interface leaves alone.
aclvars == <<acls, dynacls, acl_store, dynacl_store>>

(***************************************************************************)
(* Bounds and input sets                                                   *)
(***************************************************************************)
MaxCalls == 2

Resources == {"catalog", "schema", "table", "column"}

NoParent == "no parent"

\* Decisions of has_right: Python's True, False and None.
True == "True"
False == "False"
None == "None"

\* An optional value: <<>> is Python's None / an absent key, <<v>> is v.
Absent == <<>>
Some(v) == <<v>>

\* The named rights are the keys of sufficient_rights.
Rights == {"owner", "create", "write", "insert", "update", "delete", "select", "enumerate"}

\* ACL names a client may ask for: the rights and a name no class supports.
AclNames == Rights \cup {"INVALID"}

\* Client identities (sets of attribute ids) that make requests.
Clients == {{"alice"}, {"grp1"}}

\* Member lists a client may PUT.
MemberLists == {<< >>, <<"grp1">>, <<"*">>}

\* Role sets passed explicitly to has_right.
RoleSets == {{"alice"}, {"bob"}, {"grp1"}, {"grp1", "*"}}

SeqToSet(s) == {s[i] : i \in DOMAIN s}

(***************************************************************************)
(* The right lattice                                                       *)
(***************************************************************************)
\* The relation without write => select and create => enumerate.
sufficient_rights_listed ==
    [a \in Rights |->
        CASE a = "owner" -> {}
          [] a = "create" -> {"owner"}
          [] a = "write" -> {"owner"}
          [] a = "insert" -> {"owner", "write"}
          [] a = "update" -> {"owner", "write"}
          [] a = "delete" -> {"owner", "write"}
          [] a = "select" -> {"owner", "update", "delete"}
          [] a = "enumerate" -> {"owner", "write", "insert", "update", "delete", "select"}]

sufficient_rights ==
    [a \in Rights |->
        CASE a = "owner" -> {}
          [] a = "create" -> {"owner"}
          [] a = "write" -> {"owner"}
          [] a = "insert" -> {"owner", "write"}
          [] a = "update" -> {"owner", "write"}
          [] a = "delete" -> {"owner", "write"}
          [] a = "select" -> {"owner", "write", "update", "delete"}
          [] a = "enumerate" -> {"owner", "create", "write", "insert", "update", "delete", "select"}]

(***************************************************************************)
(* The resource classes                                                    *)
(***************************************************************************)
\* @hasacls(..., lambda self: self.schema) on Table
Table_getparent == "schema"

\* The parents of the classes whose decorators are not part of the sources
\* at hand: column -> table, schema -> catalog, the catalog has none.
Other_getparent(self) ==
    CASE self = "column" -> "table"
      [] self = "schema" -> "catalog"
      [] OTHER -> NoParent

\* A parent chain that closes on itself: the catalog's parent is a column.
getparent_looped(self) ==
    IF self = "catalog" THEN "column"
    ELSE IF self = "table" THEN Table_getparent ELSE Other_getparent(self)

getparent(self) == IF self = "table" THEN Table_getparent ELSE Other_getparent(self)

\* acls_supported of Table
Table_acls_supported == {"owner", "enumerate", "write", "insert", "update", "delete", "select"}

\* The ACL names the REST tests expect on a schema and on a column.
Schema_acls_supported == {"owner", "write", "create", "insert", "update", "delete", "select", "enumerate"}
Column_acls_supported == {"write", "insert", "update", "delete", "select", "enumerate"}

\* The catalog carries an ACL for every named right.
Catalog_acls_supported == Rights

_acls_supported(self) ==
    CASE self = "table" -> Table_acls_supported
      [] self = "schema" -> Schema_acls_supported
      [] self = "column" -> Column_acls_supported
      [] OTHER -> Catalog_acls_supported

\* hasattr(self, 'dynacls'): the table owns a DynaclDict.
HasDynacls == {"table"}

\* @hasdynacls({...}) on Table
dynacl_types_supported == {"owner", "update", "delete", "select"}

BindingNames == {"b1"}

\* Binding documents a client may PUT.  projection stands for what
\* _compile_projection does with the document's projection against the model:
\* "ok" when it compiles, otherwise the error it raises.
BindingDocs ==
    { [types |-> <<"select">>, projection |-> "ok"],
      [types |-> <<"owner">>, projection |-> "ok"],
      [types |-> <<"insert">>, projection |-> "ok"],
      [types |-> << >>, projection |-> "ok"],
      [types |-> <<"select">>, projection |-> "BadData"],
      [types |-> <<"select">>, projection |-> "ConflictModel"] }

\* AclBinding.__init__: what constructing the binding raises ("none" when it succeeds).
AclBinding(self, doc) ==
    IF Len(doc.types) = 0 THEN "BadData"
    ELSE IF \E i \in DOMAIN doc.types : doc.types[i] \notin dynacl_types_supported THEN "BadData"
    ELSE IF doc.projection # "ok" THEN doc.projection
    ELSE "none"

(***************************************************************************)
(* has_right                                                               *)
(***************************************************************************)
\* The client's attributes alone, the wildcard forgotten.
ContextRoles_plain(attrs) == attrs

\* roles is None: the client's attributes plus the wildcard.
ContextRoles(attrs) == attrs \cup {"*"}

\* The steps of the body of hasacls.has_right for (self, aclname, roles), in the
\* order of the code.  The decisions of the calls it makes are looked up:
\* selfdec[a] is self.has_right(a, roles), parentdec[a] is parentres.has_right(a, roles).

\* if aclname in self.acls
has_acl(A, self, aclname) == A[self][aclname] # Absent

\* set(acl)
acl_members(A, self, aclname) ==
    IF has_acl(A, self, aclname) THEN SeqToSet(A[self][aclname][1]) ELSE {}

\* The parent resource ownership rule left out.
parent_owner_rule_off(parentres, parentdec) == FALSE

\* parentres.has_right('owner', roles): parent resource ownership rule
parent_owner_rule(parentres, parentdec) ==
    parentres # NoParent /\ parentdec["owner"] = True

\* The parent's ACL inherited whether or not self has one of its own.
inherited_acl_rule_always(A, self, aclname, parentres, parentdec) ==
    parentres # NoParent /\ parentdec[aclname] = True

\* acl is None and parentres.has_right(aclname, roles): inherited parent ACL
inherited_acl_rule(A, self, aclname, parentres, parentdec) ==
    parentres # NoParent /\ ~has_acl(A, self, aclname) /\ parentdec[aclname] = True

\* The loop stops after owner, the first sufficient right.
sufficient_right_rule_first(aclname, selfdec) ==
    "owner" \in sufficient_rights[aclname] /\ selfdec["owner"] = True

\* for aclname2 in sufficient_rights[aclname]: another sufficient right
sufficient_right_rule(aclname, selfdec) ==
    \E aclname2 \in sufficient_rights[aclname] : selfdec[aclname2] = True

\* The test without its "not": an ACL disjoint from the roles grants.
acl_intersection_rule_inverted(A, self, aclname, roles) ==
    has_acl(A, self, aclname) /\ acl_members(A, self, aclname) \cap roles = {}

\* acl is not None and not set(acl).isdisjoint(roles): ACL intersection
acl_intersection_rule(A, self, aclname, roles) ==
    has_acl(A, self, aclname) /\ acl_members(A, self, aclname) \cap roles # {}

\* A binding also counts when its types hold aclname itself.
dynamic_rights_possible_self(D, self, aclname) ==
    /\ self \in HasDynacls
    /\ \E b \in BindingNames :
          /\ D[self][b] # Absent
          /\ SeqToSet(D[self][b][1].types) \cap (sufficient_rights[aclname] \cup {aclname}) # {}

\* a binding of self.dynacls whose types meet sufficient_rights[aclname]
dynamic_rights_possible(D, self, aclname) ==
    /\ self \in HasDynacls
    /\ \E b \in BindingNames :
          /\ D[self][b] # Absent
          /\ SeqToSet(D[self][b][1].types) \cap sufficient_rights[aclname] # {}

\* parentres.has_right(aclname, roles) is None
parent_dynamic_rights_possible(aclname, parentres, parentdec) ==
    parentres # NoParent /\ parentdec[aclname] = None

has_right_body(A, D, self, aclname, roles, selfdec, parentdec) ==
    LET parentres == getparent(self)
    IN  IF parent_owner_rule(parentres, parentdec) THEN True
        ELSE IF inherited_acl_rule(A, self, aclname, parentres, parentdec) THEN True
        ELSE IF sufficient_right_rule(aclname, selfdec) THEN True
        ELSE IF acl_intersection_rule(A, self, aclname, roles) THEN True
        ELSE IF dynamic_rights_possible(D, self, aclname) THEN None
        ELSE IF parent_dynamic_rights_possible(aclname, parentres, parentdec) THEN None
        ELSE False     \* finally, static deny decision

\* A table decided like any other resource, the schema not asked.
Table_has_right_nogate(schema_enumerate, decision) == decision

\* Table.has_right: a table needs the enumerate right of its schema too.
Table_has_right(schema_enumerate, decision) ==
    IF schema_enumerate # True THEN False ELSE decision

\* An order of the rights in which each right comes after those sufficient for it:
\* the calls self.has_right(aclname2, roles) of the loop only go backwards in it.
RightOrder == <<"owner", "create", "write", "insert", "update", "delete", "select", "enumerate">>

NoDecisions == [a \in Rights |-> False]

\* has_right of every right of one resource for one role set, given the
\* decisions of its parent: the rights are decided in RightOrder.
ResourceDecisions(A, D, self, roles, parentdec) ==
    LET RECURSIVE fill(_, _)
        fill(i, selfdec) ==
            IF i > Len(RightOrder) THEN selfdec
            ELSE LET aclname == RightOrder[i]
                     generic == has_right_body(A, D, self, aclname, roles, selfdec, parentdec)
                     decision == IF self = "table"
                                 THEN Table_has_right(parentdec["enumerate"], generic)
                                 ELSE generic
                 IN  fill(i + 1, [selfdec EXCEPT ![aclname] = decision])
    IN  fill(1, NoDecisions)

\* The decisions of self and of the resources above it:
\* Decisions(A, D, self, roles)[r][aclname] is r.has_right(aclname, roles).
RECURSIVE Decisions(_, _, _, _)
Decisions(A, D, self, roles) ==
    LET parentres == getparent(self)
    IN  IF parentres = NoParent
        THEN (self :> ResourceDecisions(A, D, self, roles, NoDecisions))
        ELSE LET above == Decisions(A, D, parentres, roles)
             IN  (self :> ResourceDecisions(A, D, self, roles, above[parentres])) @@ above

has_right(A, D, self, aclname, roles) == Decisions(A, D, self, roles)[self][aclname]

(***************************************************************************)
(* Initial state: a catalog owned by alice, nothing else set.              *)
(***************************************************************************)
NoAcls == [a \in Rights |-> Absent]
NoDynacls == [b \in BindingNames |-> Absent]

\* The resources and keys of the annotations that are written and read.
AnnotatedResources == {"schema", "table"}
AnnotationKeys == {"tag:a", "tag:b"}

NoAnnotations == [r \in AnnotatedResources |-> [k \in AnnotationKeys |-> Absent]]

NoApplication == [fn |-> "none"]

\* The column names a request may use, and the columns the table starts with.
ColumnNames == {"id", "name", "value"}
InitialColumns == <<"id", "name">>

\* introspect: Column.fromjson_single(..., i, config) for the i-th column
\* document of the table, counted from 0.
introspect_columns(coldocs) ==
    [cname \in ColumnNames |->
        IF \E i \in DOMAIN coldocs : coldocs[i] = cname
        THEN Some((CHOOSE i \in DOMAIN coldocs : coldocs[i] = cname) - 1)
        ELSE Absent]

NoCall == [op |-> "none", self |-> "catalog", aclname |-> "owner", members |-> Absent,
           raised |-> "none", ret |-> Absent]

Init ==
    /\ acls = [r \in Resources |->
                  IF r = "catalog" THEN [NoAcls EXCEPT !["owner"] = Some(<<"alice">>)] ELSE NoAcls]
    /\ dynacls = [r \in Resources |-> NoDynacls]
    /\ acl_store = acls
    /\ dynacl_store = dynacls
    /\ version = 0
    /\ attributes = {"alice"}
    /\ ncalls = 0
    /\ last = NoCall
    /\ annotations = NoAnnotations
    /\ annotation_store = << >>
    /\ applied = NoApplication
    /\ columns = introspect_columns(InitialColumns)
    /\ column_store = InitialColumns

(***************************************************************************)
(* enforce_right and the ACL storage interface                             *)
(***************************************************************************)
\* "if not decision": None is refused like False.
enforce_right_falsy(A, D, self, aclname, attrs) ==
    LET decision == has_right(A, D, self, aclname, ContextRoles(attrs))
    IN  IF decision # True THEN "Forbidden" ELSE "none"

\* hasacls.enforce_right: what the call raises ("none" when it returns).
enforce_right(A, D, self, aclname, attrs) ==
    LET decision == has_right(A, D, self, aclname, ContextRoles(attrs))
    IN  IF decision = False THEN "Forbidden" ELSE "none"

\* No memo: every call decides afresh.
cache_rights_fresh(self, first, again) == again

\* @cache_rights on Table.has_right: within a request the decision first made
\* for (resource, aclname, roles) is returned again.  No other class among the
\* sources is decorated with it.
cache_rights(self, first, again) == IF self = "table" THEN first ELSE again

\* The second self.enforce_right(aclname) of a request, made after self.acls
\* went from A to A2: what it raises.
enforce_right_again(A, A2, D, self, aclname, attrs) ==
    LET first == has_right(A, D, self, aclname, ContextRoles(attrs))
        again == has_right(A2, D, self, aclname, ContextRoles(attrs))
        decision == cache_rights(self, first, again)
    IN  IF decision = False THEN "Forbidden" ELSE "none"

\* A plain dict read with a default: no name is refused.
AclDict_getitem_lenient(A, self, k) ==
    [raised |-> "none", ret |-> IF k \in Rights THEN A[self][k] ELSE Absent]

\* AclDict.__getitem__: what the read raises, and the value it returns.
AclDict_getitem(A, self, k) ==
    IF k \notin _acls_supported(self)
    THEN [raised |-> "NotFound", ret |-> Absent]
    ELSE [raised |-> "none", ret |-> A[self][k]]

\* The name None, which delete_acl and delete_dynacl take to mean every entry.
NullName == "null"

Call(op, self, aclname, members, raised, ret) ==
    [op |-> op, self |-> self, aclname |-> aclname, members |-> members,
     raised |-> raised, ret |-> ret]

\* self.acls.clear() whatever the name.
acls_deleted_all(self, aclname) == [acls EXCEPT ![self] = NoAcls]

\* The in-memory acls of self after delete_acl removed aclname (all of them for None).
acls_deleted(self, aclname) ==
    IF aclname = NullName
    THEN [acls EXCEPT ![self] = NoAcls]
    ELSE [acls EXCEPT ![self][aclname] = Absent]

\* The name looked at before the caller: an unsupported name is a conflict
\* whoever asks.
set_acl_preflight_namefirst(self, aclname) ==
    IF aclname \notin _acls_supported(self) THEN "ConflictData"
    ELSE IF enforce_right(acls, dynacls, self, "owner", attributes) = "Forbidden" THEN "Forbidden"
    ELSE "none"

\* hasacls.set_acl before it touches self.acls: pre-flight authz, then the
\* name check.  What it raises ("none" when it goes on).
set_acl_preflight(self, aclname) ==
    IF enforce_right(acls, dynacls, self, "owner", attributes) = "Forbidden" THEN "Forbidden"
    ELSE IF aclname \notin _acls_supported(self) THEN "ConflictData"
    ELSE "none"

\* hasacls.delete_acl before it touches self.acls: pre-flight authz, then the
\* name check, which lets the null name through.
delete_acl_preflight(self, aclname) ==
    IF enforce_right(acls, dynacls, self, "owner", attributes) = "Forbidden" THEN "Forbidden"
    ELSE IF aclname # NullName /\ aclname \notin _acls_supported(self) THEN "NotFound"
    ELSE "none"

\* hasacls.delete_acl, called as op (set_acl hands over to it for members None).
delete_acl_body(op, self, aclname, purging) ==
    LET A2 == acls_deleted(self, aclname)
    IN  IF delete_acl_preflight(self, aclname) # "none"
        THEN /\ last' = Call(op, self, aclname, Absent, delete_acl_preflight(self, aclname), Absent)
             /\ UNCHANGED <<acls, acl_store, version>>
        ELSE IF ~purging
                /\ enforce_right_again(acls, A2, dynacls, self, "owner", attributes) = "Forbidden"
        THEN \* integrity check: the entry is already gone from self.acls
             /\ acls' = A2
             /\ last' = Call(op, self, aclname, Absent, "Forbidden", Absent)
             /\ UNCHANGED <<acl_store, version>>
        ELSE /\ acls' = A2
             /\ version' = version + 1
             /\ acl_store' = IF aclname = NullName
                             THEN [acl_store EXCEPT ![self] = NoAcls]
                             ELSE [acl_store EXCEPT ![self][aclname] = Absent]
             /\ last' = Call(op, self, aclname, Absent, "none", Absent)

\* hasacls.set_acl.  "assert aclname is not None" stops a call with the null
\* name where assertions are compiled in; where they are not, the call goes on.
set_acl(self, aclname, members) ==
    /\ ncalls < MaxCalls
    /\ ncalls' = ncalls + 1
    /\ UNCHANGED aux
    /\ UNCHANGED <<dynacls, dynacl_store, attributes>>
    /\ \/ /\ aclname = NullName
          /\ last' = Call("set_acl", self, aclname, members, "AssertionError", Absent)
          /\ UNCHANGED <<acls, acl_store, version>>
       \/ IF members = Absent
          THEN delete_acl_body("set_acl", self, aclname, FALSE)
          ELSE IF set_acl_preflight(self, aclname) # "none"
          THEN /\ last' = Call("set_acl", self, aclname, members,
                               set_acl_preflight(self, aclname), Absent)
               /\ UNCHANGED <<acls, acl_store, version>>
          ELSE LET A2 == [acls EXCEPT ![self][aclname] = members]
               IN  IF enforce_right_again(acls, A2, dynacls, self, "owner", attributes) = "Forbidden"
                   THEN \* integrity check: self.acls[aclname] is already assigned
                        /\ acls' = A2
                        /\ last' = Call("set_acl", self, aclname, members, "Forbidden", Absent)
                        /\ UNCHANGED <<acl_store, version>>
                   ELSE \* model_change_event, then UPDATE ... RETURNING old, else INSERT
                        /\ acls' = A2
                        /\ version' = version + 1
                        /\ acl_store' = [acl_store EXCEPT ![self][aclname] = members]
                        /\ last' = Call("set_acl", self, aclname, members, "none",
                                        acl_store[self][aclname])

\* hasacls.delete_acl
delete_acl(self, aclname, purging) ==
    /\ ncalls < MaxCalls
    /\ ncalls' = ncalls + 1
    /\ UNCHANGED aux
    /\ UNCHANGED <<dynacls, dynacl_store, attributes>>
    /\ delete_acl_body("delete_acl", self, aclname, purging)

\* hasdynacls.delete_dynacl, called as op (set_dynacl hands over to it for binding None).
delete_dynacl_body(op, self, name) ==
    IF enforce_right(acls, dynacls, self, "owner", attributes) = "Forbidden"
    THEN /\ last' = Call(op, self, name, Absent, "Forbidden", Absent)
         /\ UNCHANGED <<dynacls, dynacl_store, version>>
    ELSE /\ dynacls' = IF name = NullName
                       THEN [dynacls EXCEPT ![self] = NoDynacls]
                       ELSE [dynacls EXCEPT ![self][name] = Absent]
         /\ version' = version + 1
         /\ dynacl_store' = IF name = NullName
                            THEN [dynacl_store EXCEPT ![self] = NoDynacls]
                            ELSE [dynacl_store EXCEPT ![self][name] = Absent]
         /\ last' = Call(op, self, name, Absent, "none", Absent)

\* hasdynacls.set_dynacl
set_dynacl(self, name, binding) ==
    /\ ncalls < MaxCalls
    /\ ncalls' = ncalls + 1
    /\ UNCHANGED aux
    /\ UNCHANGED <<acls, acl_store, attributes>>
    /\ IF binding = Absent
       THEN delete_dynacl_body("set_dynacl", self, name)
       ELSE IF enforce_right(acls, dynacls, self, "owner", attributes) = "Forbidden"
       THEN /\ last' = Call("set_dynacl", self, name, binding, "Forbidden", Absent)
            /\ UNCHANGED <<dynacls, dynacl_store, version>>
       ELSE IF AclBinding(self, binding[1]) # "none"
       THEN /\ last' = Call("set_dynacl", self, name, binding, AclBinding(self, binding[1]), Absent)
            /\ UNCHANGED <<dynacls, dynacl_store, version>>
       ELSE /\ dynacls' = [dynacls EXCEPT ![self][name] = binding]
            /\ version' = version + 1
            /\ dynacl_store' = [dynacl_store EXCEPT ![self][name] = binding]
            /\ last' = Call("set_dynacl", self, name, binding, "none", dynacl_store[self][name])

\* hasdynacls.delete_dynacl
delete_dynacl(self, name) ==
    /\ ncalls < MaxCalls
    /\ ncalls' = ncalls + 1
    /\ UNCHANGED aux
    /\ UNCHANGED <<acls, acl_store, attributes>>
    /\ delete_dynacl_body("delete_dynacl", self, name)

\* Reading one ACL of a resource: self.acls[aclname]
get_acl(self, aclname) ==
    LET r == AclDict_getitem(acls, self, aclname)
    IN  /\ ncalls < MaxCalls
        /\ ncalls' = ncalls + 1
        /\ last' = Call("get_acl", self, aclname, Absent, r.raised, r.ret)
        /\ UNCHANGED aux
        /\ UNCHANGED <<acls, dynacls, acl_store, dynacl_store, version, attributes>>

\* A handler's gate: self.enforce_right(aclname)
enforce_right_call(self, aclname) ==
    /\ ncalls < MaxCalls
    /\ ncalls' = ncalls + 1
    /\ last' = Call("enforce_right", self, aclname, Absent,
                    enforce_right(acls, dynacls, self, aclname, attributes), Absent)
    /\ UNCHANGED aux
    /\ UNCHANGED <<acls, dynacls, acl_store, dynacl_store, version, attributes>>

\* A request of another client arrives: its attributes replace the context's.
NewRequest ==
    /\ \E c \in Clients : attributes' = c
    /\ last' = NoCall
    /\ UNCHANGED <<acls, dynacls, acl_store, dynacl_store, version, ncalls>>
    /\ UNCHANGED aux

\* introspect: the next request works on a Model built afresh from the store.
introspect ==
    /\ acls' = acl_store
    /\ dynacls' = dynacl_store
    /\ last' = NoCall
    /\ UNCHANGED <<acl_store, dynacl_store, version, attributes, ncalls>>
    /\ UNCHANGED aux

Next ==
    \/ NewRequest
    \/ introspect
    \/ \E self \in Resources, aclname \in AclNames \cup {NullName}, L \in MemberLists :
          set_acl(self, aclname, Some(L))
    \/ \E self \in Resources, aclname \in AclNames \cup {NullName} :
          set_acl(self, aclname, Absent)
    \/ \E self \in Resources, aclname \in AclNames \cup {NullName} :
          delete_acl(self, aclname, FALSE)
    \/ delete_acl("table", NullName, TRUE)
    \/ \E self \in HasDynacls, name \in BindingNames, doc \in BindingDocs :
          set_dynacl(self, name, Some(doc))
    \/ \E self \in HasDynacls, name \in BindingNames : set_dynacl(self, name, Absent)
    \/ \E self \in HasDynacls, name \in BindingNames \cup {NullName} : delete_dynacl(self, name)
    \/ \E self \in Resources, aclname \in AclNames : get_acl(self, aclname)
    \/ \E self \in Resources, aclname \in Rights : enforce_right_call(self, aclname)

Spec == Init /\ [][Next]_vars

\* The same catalog after its owner has let everyone enumerate it: the state
\* set_acl(catalog, enumerate, ["*"]) leads to from Init.
InitEnumerable ==
    /\ acls = [r \in Resources |->
                  IF r = "catalog"
                  THEN [NoAcls EXCEPT !["owner"] = Some(<<"alice">>), !["enumerate"] = Some(<<"*">>)]
                  ELSE NoAcls]
    /\ dynacls = [r \in Resources |-> NoDynacls]
    /\ acl_store = acls
    /\ dynacl_store = dynacls
    /\ version = 1
    /\ attributes = {"alice"}
    /\ ncalls = 0
    /\ last = NoCall
    /\ annotations = NoAnnotations
    /\ annotation_store = << >>
    /\ applied = NoApplication
    /\ columns = introspect_columns(InitialColumns)
    /\ column_store = InitialColumns

SpecEnumerable == InitEnumerable /\ [][Next]_vars

(***************************************************************************)
(* Annotations (annotatable): the storage table, set_annotation,           *)
(* delete_annotation, the load during introspection and the AltDict read.  *)
(***************************************************************************)
MaxAnnotationCalls == 2

\* Python values of an annotation as a request body delivers them, and the
\* JSON documents the annotation_value column holds.
PyNone == [py |-> "None", chars |-> "", items |-> << >>]
PyUnicode(chars) == [py |-> "unicode", chars |-> chars, items |-> << >>]
PyList(items) == [py |-> "list", chars |-> "", items |-> items]
AnnotationValues == {PyNone, PyUnicode("v1"), PyList(<<"v1", "v2">>)}

json_dumps(value) ==
    IF value.py = "None" THEN [json |-> "null", text |-> "", elements |-> << >>]
    ELSE IF value.py = "list"
         THEN [json |-> "array", text |-> "", elements |-> value.items]
         ELSE [json |-> "string", text |-> value.chars, elements |-> << >>]

json_loads(doc) ==
    IF doc.json = "null" THEN PyNone
    ELSE IF doc.json = "array" THEN PyList(doc.elements)
    ELSE PyUnicode(doc.text)

\* The rows an UPDATE or DELETE of the annotation table addresses: those of
\* the resource (keying) and, unless the key is None, of the annotation key.
annotation_where(store, self, key) ==
    {i \in DOMAIN store :
        /\ store[i].resource = self
        /\ (key = NullName \/ store[i].annotation_uri = key)}

annotation_insert_always(store, self, key) == {}

annotation_update_hits(store, self, key) == annotation_where(store, self, key)

set_annotation(self, key, value) ==
    /\ ncalls < MaxAnnotationCalls
    /\ ncalls' = ncalls + 1
    /\ UNCHANGED <<aclvars, attributes, annotations, applied, columns, column_store>>
    /\ IF enforce_right(acls, dynacls, self, "owner", attributes) = "Forbidden"
       THEN /\ last' = Call("set_annotation", self, key, Some(value), "Forbidden", Absent)
            /\ UNCHANGED <<annotation_store, version>>
       ELSE LET hits == annotation_update_hits(annotation_store, self, key)
                first == CHOOSE i \in hits : \A j \in hits : i <= j
            IN  /\ version' = version + 1
                /\ IF hits # {}
                   THEN /\ annotation_store' =
                              [i \in DOMAIN annotation_store |->
                                  IF i \in hits
                                  THEN [annotation_store[i] EXCEPT
                                           !.annotation_value = json_dumps(value)]
                                  ELSE annotation_store[i]]
                        /\ last' = Call("set_annotation", self, key, Some(value), "none",
                                        Some(json_loads(annotation_store[first].annotation_value)))
                   ELSE /\ annotation_store' =
                              Append(annotation_store,
                                     [resource |-> self, annotation_uri |-> key,
                                      annotation_value |-> json_dumps(value)])
                        /\ last' = Call("set_annotation", self, key, Some(value), "none", Absent)

delete_annotation(self, key) ==
    /\ ncalls < MaxAnnotationCalls
    /\ ncalls' = ncalls + 1
    /\ UNCHANGED <<aclvars, attributes, annotations, applied, columns, column_store>>
    /\ IF enforce_right(acls, dynacls, self, "owner", attributes) = "Forbidden"
       THEN /\ last' = Call("delete_annotation", self, key, Absent, "Forbidden", Absent)
            /\ UNCHANGED <<annotation_store, version>>
       ELSE LET hits == annotation_where(annotation_store, self, key)
                keep(i) == i \notin hits
                kept == SelectSeq([i \in DOMAIN annotation_store |-> i], keep)
            IN  /\ version' = version + 1
                /\ annotation_store' = [n \in DOMAIN kept |-> annotation_store[kept[n]]]
                /\ last' = Call("delete_annotation", self, key, Absent, "none", Absent)

\* The annotations of the Model introspection builds: each stored row is
\* assigned to its resource's dictionary in the order the rows are read.
RECURSIVE annotation_introspect_helper(_, _)
annotation_introspect_helper(store, loaded) ==
    IF store = << >> THEN loaded
    ELSE LET row == Head(store)
         IN  annotation_introspect_helper(
                 Tail(store),
                 [loaded EXCEPT ![row.resource][row.annotation_uri] =
                                    Some(json_loads(row.annotation_value))])

introspect_annotations ==
    /\ annotations' = annotation_introspect_helper(annotation_store, NoAnnotations)
    /\ last' = NoCall
    /\ UNCHANGED <<aclvars, annotation_store, version, attributes, ncalls, applied, columns, column_store>>

\* AltDict.__getitem__ on resource.annotations.
AltDict_getitem(d, k) ==
    IF d[k] = Absent
    THEN [raised |-> "NotFound", ret |-> Absent]
    ELSE [raised |-> "none", ret |-> d[k]]

get_annotation(self, key) ==
    /\ LET r == AltDict_getitem(annotations[self], key)
       IN  last' = Call("get_annotation", self, key, Absent, r.raised, r.ret)
    /\ UNCHANGED <<aclvars, annotations, annotation_store, version, attributes, ncalls, applied, columns, column_store>>

\* Table.alter_table: the generic ALTER TABLE wrapper.  The Model in memory is
\* not touched; the change shows at the next introspection.
AlterClauses == {"ADD COLUMN", "DROP COLUMN"}

alter_table(alterclause) ==
    /\ ncalls < MaxAnnotationCalls
    /\ ncalls' = ncalls + 1
    /\ UNCHANGED <<aclvars, attributes, annotations, annotation_store, applied, columns, column_store>>
    /\ IF enforce_right(acls, dynacls, "table", "owner", attributes) = "Forbidden"
       THEN /\ last' = Call("alter_table", "table", alterclause, Absent, "Forbidden", Absent)
            /\ UNCHANGED version
       ELSE /\ last' = Call("alter_table", "table", alterclause, Absent, "none", Absent)
            /\ version' = version + 1

\* The SQL statements an operation hands to the cursor, in order.
metadata_upsert_sql_ticklast(ret) ==
    <<"UPDATE">> \o (IF ret = Absent THEN <<"INSERT">> ELSE << >>) \o <<"model_change_event">>

metadata_upsert_sql(ret) ==
    <<"model_change_event", "UPDATE">> \o (IF ret = Absent THEN <<"INSERT">> ELSE << >>)

metadata_delete_sql == <<"model_change_event", "DELETE">>

alter_table_sql == <<"ALTER TABLE", "model_change_event", "data_change_event">>

MetadataSetters == {"set_annotation", "set_acl", "set_dynacl"}
MetadataDeleters == {"delete_annotation", "delete_acl", "delete_dynacl"}

sql_statements(call) ==
    IF call.raised # "none" THEN << >>
    ELSE IF call.op = "alter_table" THEN alter_table_sql
    ELSE IF call.op \in MetadataSetters /\ call.members # Absent
         THEN metadata_upsert_sql(call.ret)
    ELSE IF call.op \in MetadataSetters \cup MetadataDeleters THEN metadata_delete_sql
    ELSE << >>

NextAnnotation ==
    \/ NewRequest
    \/ \E alterclause \in AlterClauses : alter_table(alterclause)
    \/ introspect_annotations
    \/ \E self \in AnnotatedResources, key \in AnnotationKeys, value \in AnnotationValues :
          set_annotation(self, key, value)
    \/ \E self \in AnnotatedResources, key \in AnnotationKeys \cup {NullName} :
          delete_annotation(self, key)
    \/ \E self \in AnnotatedResources, key \in AnnotationKeys :
          get_annotation(self, key)

SpecAnnotation == Init /\ [][NextAnnotation]_vars

(***************************************************************************)
(* Loading the stored dynamic ACL bindings into a new Model.               *)
(***************************************************************************)
MaxStoredRows == 2

StoredBindingNames == {"b1", "b2", "b3"}

\* What the dynacl table can hold: documents set_dynacl accepted when they
\* were stored.  The projection of a stored document compiles against the
\* Model being built, or no longer does (a foreign key or a column type it
\* names has changed since) and raises ConflictModel.
StoredBindingDocs ==
    {doc \in BindingDocs :
        /\ AclBinding("table", [doc EXCEPT !.projection = "ok"]) = "none"
        /\ doc.projection \in {"ok", "ConflictModel"}}

\* Rows of model_table_dynacl of one table, in the order the cursor yields
\* them; the table's UNIQUE constraint keeps the binding names distinct.
StoredDynaclRows ==
    {rows \in UNION {[1..n -> [binding_name : StoredBindingNames, binding : StoredBindingDocs]] :
                        n \in 0..MaxStoredRows} :
        \A i, j \in DOMAIN rows : rows[i].binding_name = rows[j].binding_name => i = j}

NoStoredDynacls == [n \in StoredBindingNames |-> Absent]

\* _introspect_helper's "except exception.ConflictModel: pass"
_introspect_helper_passes(raised) == raised = "ConflictModel"

\* hasdynacls.introspect_dynacl_helper: _introspect_helper hands each row to
\* helper(), which constructs the AclBinding and assigns it.
RECURSIVE introspect_dynacl_helper(_, _)
introspect_dynacl_helper(rows, loaded) ==
    IF rows = << >> THEN [raised |-> "none", dynacls |-> loaded]
    ELSE LET row == Head(rows)
             raised == AclBinding("table", row.binding)
         IN  IF raised = "none"
             THEN introspect_dynacl_helper(
                      Tail(rows), [loaded EXCEPT ![row.binding_name] = Some(row.binding)])
             ELSE IF _introspect_helper_passes(raised)
             THEN introspect_dynacl_helper(Tail(rows), loaded)
             ELSE [raised |-> raised, dynacls |-> loaded]

\* introspect: table.dynacls.update({name: AclBinding(...) ...}) over the
\* aggregated rows of known_table_dynacls; nothing catches what AclBinding raises.
RECURSIVE introspect_table_dynacls(_, _)
introspect_table_dynacls(rows, loaded) ==
    IF rows = << >> THEN [raised |-> "none", dynacls |-> loaded]
    ELSE LET row == Head(rows)
             raised == AclBinding("table", row.binding)
         IN  IF raised = "none"
             THEN introspect_table_dynacls(
                      Tail(rows), [loaded EXCEPT ![row.binding_name] = Some(row.binding)])
             ELSE [raised |-> raised, dynacls |-> NoStoredDynacls]

Applied(fn, input, result) == [fn |-> fn, input |-> input, result |-> result]

\* A Model is built by one application of each loader to the rows it is given;
\* what an application leaves alone:
modelvars == <<acls, dynacls, acl_store, dynacl_store, version, attributes, ncalls, last,
               annotations, annotation_store, columns, column_store>>

(***************************************************************************)
(* Loading unique and foreign-key reference constraints (introspect).      *)
(***************************************************************************)
MaxConstraints == 2

\* The column index built from known_tables_denorm: two tables, T1 as the
\* test suite defines it (id and name not null, value nullable) and T2.
ColumnIndex ==
    [rid \in {"T1.id", "T1.name", "T1.value", "T2.id", "T2.ref"} |->
        [table |-> IF rid \in {"T1.id", "T1.name", "T1.value"} THEN "T1" ELSE "T2",
         nullok |-> rid \in {"T1.value", "T2.ref"}]]

SchemaName == "S"

\* Column-rid lists a constraint row may carry; "gone" is in no table.
KeyColumnLists ==
    { <<"T1.id">>, <<"T1.name">>, <<"T1.value">>, <<"T1.id", "T1.name">>,
      <<"T1.name", "T1.id">>, <<"T2.id">>, <<"gone">> }

\* Rows of known_keys_denorm (real constraints, named) and of
\* known_pseudo_keys_denorm (constraint_name may be NULL).
KeyRows ==
    [constraint_name : {"k1", "k2"}, column_rids : KeyColumnLists, pseudo : {FALSE}]
    \cup [constraint_name : {"p1", NullName}, column_rids : KeyColumnLists, pseudo : {TRUE}]

\* The row lists the two cursors deliver: the real constraints, whose names
\* are distinct within the schema, before the pseudo constraints.
RowLists(rowset) ==
    {rows \in UNION {[1..n -> rowset] : n \in 0..MaxConstraints} :
        \A i, j \in DOMAIN rows :
           i < j => /\ (rows[i].pseudo => rows[j].pseudo)
                    /\ (rows[i].constraint_name = rows[j].constraint_name
                          => rows[i].constraint_name = NullName)}

\* name_pair of the constraint of row number rid
name_pair(row, rid) ==
    IF row.pseudo
    THEN <<"", IF row.constraint_name = NullName THEN ToString(rid) ELSE row.constraint_name>>
    ELSE <<SchemaName, row.constraint_name>>

Loaded(raised, message, found) == [raised |-> raised, message |-> message, found |-> found]

_introspect_pkey_first_wins(pk_colset, pkeys) == {}

_introspect_pkey_collisions(pk_colset, pkeys) == {k \in pkeys : k.columns = pk_colset}

\* introspect._introspect_pkey for the row with the given rid
_introspect_pkey(row, rid, pkeys) ==
    IF \E i \in DOMAIN row.column_rids : row.column_rids[i] \notin DOMAIN ColumnIndex
    THEN Loaded("none", << >>, pkeys)      \* except KeyError: return
    ELSE LET pk_colset == SeqToSet(row.column_rids)
             collisions == _introspect_pkey_collisions(pk_colset, pkeys)
         IN  IF collisions # {}
             THEN Loaded("ValueError",
                         <<row.constraint_name, (CHOOSE k \in collisions : TRUE).names>>,
                         pkeys)
             ELSE Loaded("none", << >>,
                         pkeys \cup {[columns |-> pk_colset, names |-> name_pair(row, rid),
                                      pseudo |-> row.pseudo]})

RECURSIVE introspect_pkeys(_, _, _)
introspect_pkeys(rows, rid, pkeys) ==
    IF rid > Len(rows) THEN Loaded("none", << >>, pkeys)
    ELSE LET one == _introspect_pkey(rows[rid], rid, pkeys)
         IN  IF one.raised # "none" THEN one
             ELSE introspect_pkeys(rows, rid + 1, one.found)

is_primary_key_any(k) == TRUE

\* Unique.is_primary_key, as AclBasePredicate.sql_where tests it: no column
\* of the key is nullable.
is_primary_key(k) == \A c \in k.columns : ~ColumnIndex[c].nullok

table_uniques(table, pkeys) ==
    {k \in pkeys : \A c \in k.columns : ColumnIndex[c].table = table}

has_primary_key(table, pkeys) ==
    \E k \in table_uniques(table, pkeys) : is_primary_key(k)

check_primary_keys(table, pkeys, require) ==
    IF ~has_primary_key(table, pkeys) /\ require THEN "RuntimeError" ELSE "none"

\* introspect, from the constraint rows to the check of T1's primary keys:
\* what it raises and, when it returns, the uniques of the Model.
introspect_uniques(rows, require) ==
    LET load == introspect_pkeys(rows, 1, {})
    IN  IF load.raised # "none" THEN Loaded(load.raised, load.message, {})
        ELSE IF check_primary_keys("T1", load.found, require) # "none"
        THEN Loaded(check_primary_keys("T1", load.found, require), << >>, {})
        ELSE load

load_uniques ==
    /\ applied = NoApplication
    /\ \E rows \in RowLists(KeyRows), require \in BOOLEAN :
          applied' = Applied("introspect_uniques", [rows |-> rows, require |-> require],
                             introspect_uniques(rows, require))
    /\ UNCHANGED modelvars

\* The uniques that are loaded when the reference constraints are read.
CatalogKeyRows ==
    << [constraint_name |-> "T1_pkey", column_rids |-> <<"T1.id">>, pseudo |-> FALSE],
       [constraint_name |-> "T1_name_key", column_rids |-> <<"T1.name">>, pseudo |-> FALSE],
       [constraint_name |-> "T1_id_name_key", column_rids |-> <<"T1.id", "T1.name">>,
        pseudo |-> FALSE],
       [constraint_name |-> "T2_pkey", column_rids |-> <<"T2.id">>, pseudo |-> FALSE] >>

CatalogKeys == introspect_pkeys(CatalogKeyRows, 1, {}).found

FkeyColumnLists == { <<"T2.ref">>, <<"T2.ref", "T2.id">>, <<"T2.id", "T2.ref">>,
                     <<"T2.ref", "T2.ref">>, <<"gone">> }

PkeyColumnLists == { <<"T1.id">>, <<"T1.id", "T1.name">>, <<"T1.name", "T1.id">>,
                     <<"T1.id", "T1.id">>, <<"T1.value">> }

\* Rows of known_fkeys_denorm and known_pseudo_fkeys_denorm
FkeyRows ==
    [constraint_name : {"f1", "f2"}, fk_col_rids : FkeyColumnLists,
     pk_col_rids : PkeyColumnLists, pseudo : {FALSE}]
    \cup [constraint_name : {"pf1", NullName}, fk_col_rids : FkeyColumnLists,
          pk_col_rids : PkeyColumnLists, pseudo : {TRUE}]

Min(a, b) == IF a < b THEN a ELSE b

\* { fk_col: pk_col for fk_col, pk_col in zip(fk_cols, pk_cols) }: zip stops at
\* the shorter list and a later pair replaces an earlier one with the same key.
zip_dict(fk_cols, pk_cols) ==
    LET n == Min(Len(fk_cols), Len(pk_cols))
    IN  {<<fk_cols[i], pk_cols[i]>> : i \in {i \in 1..n : \A j \in (i+1)..n : fk_cols[j] # fk_cols[i]}}

\* introspect._introspect_fkr for the row with the given rid
_introspect_fkr(row, rid, fkeyrefs) ==
    IF \/ \E i \in DOMAIN row.fk_col_rids : row.fk_col_rids[i] \notin DOMAIN ColumnIndex
       \/ \E i \in DOMAIN row.pk_col_rids : row.pk_col_rids[i] \notin DOMAIN ColumnIndex
    THEN Loaded("none", << >>, fkeyrefs)      \* except KeyError: return
    ELSE LET fk_colset == SeqToSet(row.fk_col_rids)
             pk_colset == SeqToSet(row.pk_col_rids)
             fk_ref_map == zip_dict(row.fk_col_rids, row.pk_col_rids)
             collisions == {r \in fkeyrefs :
                               r.foreign_key = fk_colset /\ r.reference_map = fk_ref_map}
         IN  IF \A k \in CatalogKeys : k.columns # pk_colset
             THEN Loaded("KeyError", << >>, fkeyrefs)      \* pkeys[pk_colset]
             ELSE IF collisions # {}
             THEN Loaded("ValueError",
                         <<row.constraint_name, (CHOOSE r \in collisions : TRUE).names>>,
                         fkeyrefs)
             ELSE Loaded("none", << >>,
                         fkeyrefs \cup {[foreign_key |-> fk_colset, unique |-> pk_colset,
                                         reference_map |-> fk_ref_map,
                                         names |-> name_pair(row, rid),
                                         pseudo |-> row.pseudo]})

RECURSIVE introspect_fkrs(_, _, _)
introspect_fkrs(rows, rid, fkeyrefs) ==
    IF rid > Len(rows) THEN Loaded("none", << >>, fkeyrefs)
    ELSE LET one == _introspect_fkr(rows[rid], rid, fkeyrefs)
         IN  IF one.raised # "none" THEN Loaded(one.raised, one.message, {})
             ELSE introspect_fkrs(rows, rid + 1, one.found)

load_fkeyrefs ==
    /\ applied = NoApplication
    /\ \E rows \in RowLists(FkeyRows) :
          applied' = Applied("introspect_fkrs", rows, introspect_fkrs(rows, 1, {}))
    /\ UNCHANGED modelvars

load_dynacls_by_helper ==
    /\ applied = NoApplication
    /\ \E rows \in StoredDynaclRows :
          applied' = Applied("introspect_dynacl_helper", rows,
                             introspect_dynacl_helper(rows, NoStoredDynacls))
    /\ UNCHANGED modelvars

load_dynacls_by_introspect ==
    /\ applied = NoApplication
    /\ \E rows \in StoredDynaclRows :
          applied' = Applied("introspect", rows,
                             introspect_table_dynacls(rows, NoStoredDynacls))
    /\ UNCHANGED modelvars

\* The rows of _ermrest.known_types: a row is a base type (both element
\* columns NULL), an array type or a domain type.
MaxTypes == 3
TypeRids == 1..MaxTypes

TypeRow(array_element_type_rid, domain_element_type_rid) ==
    [array_element_type_rid |-> array_element_type_rid,
     domain_element_type_rid |-> domain_element_type_rid]

TypeRows ==
    {TypeRow(Absent, Absent)}
        \cup {TypeRow(Some(e), Absent) : e \in TypeRids}
        \cup {TypeRow(Absent, Some(e)) : e \in TypeRids}

\* The type a row is built on, 0 for a base type.
element_of(row) ==
    IF row.domain_element_type_rid # Absent THEN row.domain_element_type_rid[1]
    ELSE IF row.array_element_type_rid # Absent THEN row.array_element_type_rid[1]
    ELSE 0

RECURSIVE depth_within(_, _, _)
depth_within(types, rid, n) ==
    IF rid = 0 THEN TRUE
    ELSE IF n = 0 THEN FALSE
    ELSE depth_within(types, element_of(types[rid]), n - 1)

\* The database's types: every element type exists and no type is built on
\* itself; an array's element is not an array.
KnownTypes ==
    {types \in [TypeRids -> TypeRows] :
        /\ \A rid \in TypeRids : depth_within(types, rid, MaxTypes)
        /\ \A rid \in TypeRids :
              types[rid].array_element_type_rid # Absent =>
                 types[types[rid].array_element_type_rid[1]].array_element_type_rid = Absent}

\* x comes no later than y under "ORDER BY ... NULLS FIRST"
nulls_first(x, y) == x = Absent \/ (y # Absent /\ x[1] <= y[1])

\* ORDER BY array_element_type_rid NULLS FIRST, domain_element_type_rid NULLS FIRST
order_by(r1, r2) ==
    IF r1.array_element_type_rid = r2.array_element_type_rid
    THEN nulls_first(r1.domain_element_type_rid, r2.domain_element_type_rid)
    ELSE nulls_first(r1.array_element_type_rid, r2.array_element_type_rid)

\* The orders in which the cursor may deliver the rows: rows the ORDER BY
\* does not tell apart come in any order.
cursor_orders(types) ==
    {p \in [TypeRids -> TypeRids] :
        /\ \A i, j \in TypeRids : i # j => p[i] # p[j]
        /\ \A i, j \in TypeRids : i < j => order_by(types[p[i]], types[p[j]])}

\* The typesengine call the loop makes for one row.
typesengine_add(rid, row) ==
    IF row.domain_element_type_rid # Absent
    THEN [call |-> "add_domain_type", rid |-> rid, element |-> row.domain_element_type_rid[1]]
    ELSE IF row.array_element_type_rid # Absent
    THEN [call |-> "add_array_type", rid |-> rid, element |-> row.array_element_type_rid[1]]
    ELSE [call |-> "add_base_type", rid |-> rid, element |-> 0]

\* The type-loading loop over the cursor.
introspect_types(types, order) ==
    [i \in TypeRids |-> typesengine_add(order[i], types[order[i]])]

load_types ==
    /\ applied = NoApplication
    /\ \E types \in KnownTypes : \E order \in cursor_orders(types) :
          applied' = Applied("introspect_types", types, introspect_types(types, order))
    /\ UNCHANGED modelvars

NextIntrospect ==
    \/ load_types
    \/ load_dynacls_by_helper
    \/ load_dynacls_by_introspect
    \/ load_uniques
    \/ load_fkeyrefs

SpecIntrospect == Init /\ [][NextIntrospect]_vars

(***************************************************************************)
(* Text functions: truncated_identifier and the SQL of text predicates.    *)
(***************************************************************************)
MaxParts == 5

\* A part is modelled by the length of its UTF-8 encoding; the lengths sit on
\* both sides of the threshold (4) and of the hash length (24).
PartLengths == {1, 4, 5, 24, 25, 64}

PartLists == UNION {[1..n -> PartLengths] : n \in 0..MaxParts}

threshold == 4

\* len(base64.b64encode(md5.digest())): 16 bytes in base64
HashLength == 24

RECURSIVE SumSeq(_)
SumSeq(q) == IF q = << >> THEN 0 ELSE Head(q) + SumSeq(Tail(q))

\* len(s[0:n]) for a string of the given length; a negative n counts from the end
SliceLength(length, n) ==
    IF n >= 0 THEN Min(length, n)
    ELSE IF length + n > 0 THEN length + n ELSE 0

\* convert(p): the length of what it returns, and whether it is the hash
convert(p, max_component_len) ==
    IF p <= max_component_len
    THEN [hashed |-> FALSE, length |-> p]
    ELSE [hashed |-> TRUE, length |-> SliceLength(HashLength, max_component_len)]

len_static(parts) ==
    SumSeq([i \in DOMAIN parts |-> IF parts[i] <= threshold THEN parts[i] ELSE 0])

\* truncated_identifier.  The two assert statements act where assertions are
\* compiled in and are skipped where they are not.
truncated_identifier(parts, assertions) ==
    LET num_components == Cardinality({i \in DOMAIN parts : parts[i] > threshold})
        max_component_len ==
            (63 - len_static(parts)) \div (IF num_components = 0 THEN 1 ELSE num_components)
        result == [i \in DOMAIN parts |-> convert(parts[i], max_component_len)]
        length == SumSeq([i \in DOMAIN parts |-> result[i].length])
    IN  IF assertions /\ ~(len_static(parts) < 20)
        THEN [raised |-> "AssertionError", result |-> << >>, length |-> 0]
        ELSE IF assertions /\ ~(length <= 63)
        THEN [raised |-> "AssertionError", result |-> << >>, length |-> 0]
        ELSE [raised |-> "none", result |-> result, length |-> length]

apply_truncated_identifier ==
    /\ applied = NoApplication
    /\ \E parts \in PartLists, assertions \in BOOLEAN :
          applied' = Applied("truncated_identifier", parts,
                             truncated_identifier(parts, assertions))
    /\ UNCHANGED modelvars

\* SQL text is modelled as the sequence of its tokens.
TextColumns == {"c1", "c2", "c3"}

\* The left operand of a text predicate: one column, or a pseudo-column that
\* stands for a set of columns.
LeftColumns == {{c} : c \in TextColumns} \cup {{"c1", "c2"}, TextColumns}

TableAliases == {<<prefix, "t", pos>> : prefix \in {"", "s_"}, pos \in {"0", "1"}}

Operands == {"foo", "a & b"}

TextOperators == [regexp |-> "~", ciregexp |-> "~*", ts |-> "@@"]

\* The column's own text expression under a table alias.
sql_name_astext(talias, c) == talias \o <<".", c, "::", "text">>

\* Column-set pseudo-columns answer with one expression per member column.
sql_name_astext_with_talias(left_col, talias) ==
    {sql_name_astext(talias, c) : c \in left_col}

\* BinaryTextPredicate._sql_left_value: a set for a pseudo-column, one
\* expression for a column.
BinaryTextPredicate_sql_left_value(left_col, talias) ==
    IF Cardinality(left_col) > 1
    THEN [isset |-> TRUE, exprs |-> sql_name_astext_with_talias(left_col, talias)]
    ELSE [isset |-> FALSE,
          exprs |-> {sql_name_astext(talias, CHOOSE c \in left_col : TRUE)}]

BinaryTextPredicate_sql_right_value(operand) == <<"'", operand, "'", "::", "text">>

\* wrap(left) inside TextsearchPredicate._sql_left_value: the function body
\* is an expression statement without return, so its value is None, which
\* the %s of where_one prints as None.
wrap(left) == <<"None">>

TextsearchPredicate_sql_left_value(left_col, talias) ==
    LET left == BinaryTextPredicate_sql_left_value(left_col, talias)
    IN  [isset |-> left.isset, exprs |-> {wrap(l) : l \in left.exprs}]

TextsearchPredicate_sql_right_value(operand) ==
    <<"to_tsquery", "(">> \o BinaryTextPredicate_sql_right_value(operand) \o <<")">>

\* BinaryTextPredicate.sql_where, as the class of the operator overrides it
sql_where(operator, left_col, talias, operand) ==
    LET left == IF operator = "ts"
                THEN TextsearchPredicate_sql_left_value(left_col, talias)
                ELSE BinaryTextPredicate_sql_left_value(left_col, talias)
        right == IF operator = "ts"
                 THEN TextsearchPredicate_sql_right_value(operand)
                 ELSE BinaryTextPredicate_sql_right_value(operand)
        where_one(l) == <<"(">> \o l \o <<TextOperators[operator]>> \o right \o <<")">>
    IN  [isset |-> left.isset, clauses |-> {where_one(l) : l \in left.exprs}]

apply_sql_where ==
    /\ applied = NoApplication
    /\ \E operator \in DOMAIN TextOperators, left_col \in LeftColumns,
          talias \in TableAliases, operand \in Operands :
          applied' = Applied("sql_where",
                             [operator |-> operator, left_col |-> left_col,
                              talias |-> talias, operand |-> operand],
                             sql_where(operator, left_col, talias, operand))
    /\ UNCHANGED modelvars

\* Dynamic-authorization filters of Table.sql_name.  A binding clause is
\* modelled by the value it takes on the row at hand, in SQL's three-valued logic.
MaxClauses == 3

SqlBooleans == {"TRUE", "FALSE", "NULL"}

ClauseLists == UNION {[1..n -> SqlBooleans] : n \in 1..MaxClauses}

SqlNot(a) == IF a = "NULL" THEN "NULL" ELSE IF a = "TRUE" THEN "FALSE" ELSE "TRUE"

SqlOr(a, b) ==
    IF a = "TRUE" \/ b = "TRUE" THEN "TRUE"
    ELSE IF a = "NULL" \/ b = "NULL" THEN "NULL" ELSE "FALSE"

SqlAnd(a, b) ==
    IF a = "FALSE" \/ b = "FALSE" THEN "FALSE"
    ELSE IF a = "NULL" \/ b = "NULL" THEN "NULL" ELSE "TRUE"

SqlCoalesce(a, b) == IF a = "NULL" THEN b ELSE a

\* ' OR '.join(["(%s)" % clause for clause in clauses])
RECURSIVE positive_filter(_)
positive_filter(clauses) ==
    IF Len(clauses) = 1 THEN clauses[1]
    ELSE SqlOr(clauses[1], positive_filter(Tail(clauses)))

negative_clause_bare(clause) == SqlNot(clause)

\* "COALESCE(NOT (%s), True)" % clause
negative_clause(clause) == SqlCoalesce(SqlNot(clause), "TRUE")

\* ' AND '.join(["COALESCE(NOT (%s), True)" % clause for clause in clauses])
RECURSIVE negative_filter(_)
negative_filter(clauses) ==
    IF Len(clauses) = 1 THEN negative_clause(clauses[1])
    ELSE SqlAnd(negative_clause(clauses[1]), negative_filter(Tail(clauses)))

\* Table.sql_name with dynauthz True or False: whether the WHERE of the
\* subquery keeps the row (a WHERE keeps a row when its condition is TRUE).
sql_name(dynauthz, clauses) ==
    IF dynauthz THEN positive_filter(clauses) = "TRUE"
    ELSE negative_filter(clauses) = "TRUE"

apply_sql_name ==
    /\ applied = NoApplication
    /\ \E dynauthz \in BOOLEAN, clauses \in ClauseLists :
          applied' = Applied("sql_name", [dynauthz |-> dynauthz, clauses |-> clauses],
                             [selected |-> sql_name(dynauthz, clauses)])
    /\ UNCHANGED modelvars

NextText ==
    \/ apply_truncated_identifier
    \/ apply_sql_where
    \/ apply_sql_name

SpecText == Init /\ [][NextText]_vars

(***************************************************************************)
(* Columns of a table: add_column, delete_column and reintrospection.      *)
(***************************************************************************)
MaxColumnCalls == 2

\* The column-sets of the table's unique keys and of its foreign keys.
TableUniques == {{"id"}, {"id", "name"}}
TableFkeys == {{"name"}, {"value"}}

\* One step of an operation: what it does and to which column-sets.
Step(step, of) == [step |-> step, of |-> of]

keys_of_none(keys, cname) == {}

\* "if column in unique.columns" / "if column in fkey.columns"
keys_of(keys, cname) == {k \in keys : cname \in k}

RECURSIVE without(_, _)
without(coldocs, cname) ==
    IF coldocs = << >> THEN << >>
    ELSE IF Head(coldocs) = cname THEN without(Tail(coldocs), cname)
    ELSE <<Head(coldocs)>> \o without(Tail(coldocs), cname)

\* Table.delete_column
delete_column(cname) ==
    /\ ncalls < MaxColumnCalls
    /\ ncalls' = ncalls + 1
    /\ UNCHANGED <<aclvars, attributes, annotations, annotation_store, applied>>
    /\ IF enforce_right(acls, dynacls, "table", "owner", attributes) = "Forbidden"
       THEN /\ last' = Call("delete_column", "table", cname, Absent, "Forbidden", << >>)
            /\ UNCHANGED <<columns, column_store, version>>
       ELSE IF columns[cname] = Absent
       THEN /\ last' = Call("delete_column", "table", cname, Absent, "ConflictModel", << >>)
            /\ UNCHANGED <<columns, column_store, version>>
       ELSE /\ last' = Call("delete_column", "table", cname, Absent, "none",
                            << Step("unique.pre_delete", keys_of(TableUniques, cname)),
                               Step("fkey.pre_delete", keys_of(TableFkeys, cname)),
                               Step("column.pre_delete", {{cname}}),
                               Step("DROP COLUMN", {{cname}}),
                               Step("del self.columns[cname]", {{cname}}) >>)
            /\ column_store' = without(column_store, cname)
            /\ columns' = [columns EXCEPT ![cname] = Absent]
            /\ version' = version + 1

\* position = len(self.columns)
next_position(cols) == Cardinality({c \in ColumnNames : cols[c] # Absent})

\* Table.add_column, for a column document with the given name
add_column(cname) ==
    /\ ncalls < MaxColumnCalls
    /\ ncalls' = ncalls + 1
    /\ UNCHANGED <<aclvars, attributes, annotations, annotation_store, applied>>
    /\ IF enforce_right(acls, dynacls, "table", "owner", attributes) = "Forbidden"
       THEN /\ last' = Call("add_column", "table", cname, Absent, "Forbidden", Absent)
            /\ UNCHANGED <<columns, column_store, version>>
       ELSE IF columns[cname] # Absent
       THEN /\ last' = Call("add_column", "table", cname, Absent, "ConflictModel", Absent)
            /\ UNCHANGED <<columns, column_store, version>>
       ELSE /\ last' = Call("add_column", "table", cname, Absent, "none",
                            Some(next_position(columns)))
            /\ column_store' = Append(column_store, cname)
            /\ columns' = [columns EXCEPT ![cname] = Some(next_position(columns))]
            /\ version' = version + 1

\* The next request works on a Model built afresh: the table's columns are
\* numbered as the database lists them.
reintrospect_columns ==
    /\ columns' = introspect_columns(column_store)
    /\ last' = NoCall
    /\ UNCHANGED <<aclvars, attributes, annotations, annotation_store, applied,
                   column_store, version, ncalls>>

NextColumns ==
    \/ NewRequest
    \/ reintrospect_columns
    \/ \E cname \in ColumnNames : add_column(cname)
    \/ \E cname \in ColumnNames : delete_column(cname)

SpecColumns == Init /\ [][NextColumns]_vars

(***************************************************************************)
(* Properties                                                              *)
(***************************************************************************)
\* C1: enforce_right(aclname) raises Forbidden exactly when has_right(aclname)
\* for the client's roles is False; for True and for None (indeterminate) it
\* returns normally.
C1_EnforceRight ==
    /\ last.op = "enforce_right" =>
          /\ last.raised \in {"Forbidden", "none"}
          /\ last.raised = "Forbidden" <=>
                has_right(acls, dynacls, last.self, last.aclname, ContextRoles(attributes)) = False
    /\ LET dec == Decisions(acls, dynacls, "table", ContextRoles(attributes))["table"]
       IN  \A aclname \in Rights :
              dec[aclname] = None
                 => enforce_right(acls, dynacls, "table", aclname, attributes) = "none"

\* C1 witness: the client's decision on the table is None and enforce_right returns.
C1_Witness ==
    \E aclname \in Rights :
        /\ has_right(acls, dynacls, "table", aclname, ContextRoles(attributes)) = None
        /\ enforce_right(acls, dynacls, "table", aclname, attributes) = "none"

\* The sufficiency relation as the specification lists it: pairs <<a2, a>>
\* where holding a2 is sufficient for a.
SpecSufficiency ==
    {<<"owner", a>> : a \in Rights \ {"owner"}}
    \cup {<<"write", a>> : a \in {"insert", "update", "delete"}}
    \cup {<<a2, "select">> : a2 \in {"update", "delete"}}
    \cup {<<a2, "enumerate">> : a2 \in {"select", "insert", "update", "delete", "write"}}

\* The relation of the code: the specification's pairs and two more.
CodeSufficiency == SpecSufficiency \cup {<<"write", "select">>, <<"create", "enumerate">>}

SufficiencyPairs == {<<a2, a>> \in Rights \X Rights : a2 \in sufficient_rights[a]}

\* The catalog grants exactly one right, a2, and grants it to grp1 alone.
OnlyCatalogGrant(a2) ==
    /\ acls["catalog"][a2] = Some(<<"grp1">>)
    /\ \A a \in Rights \ {a2} : acls["catalog"][a] \in {Absent, Some(<< >>)}

\* C2 as stated: the sufficiency relation is exactly the listed one, so a
\* single grant of a2 on the catalog gives a2 and what the list names for it.
C2_Original ==
    /\ \A a2 \in Rights :
          OnlyCatalogGrant(a2) =>
             LET dec == Decisions(acls, dynacls, "catalog", {"grp1"})["catalog"]
             IN  \A a \in Rights :
                    dec[a] = IF a = a2 \/ <<a2, a>> \in SpecSufficiency THEN True ELSE False
    /\ SufficiencyPairs = SpecSufficiency

\* C2: the sufficiency relation is the listed one together with write => select
\* and create => enumerate, and a single grant of a2 on the catalog gives
\* exactly a2 and the rights a2 is sufficient for.
C2_Sufficiency ==
    /\ SufficiencyPairs = CodeSufficiency
    /\ \A a2 \in Rights :
          OnlyCatalogGrant(a2) =>
             LET dec == Decisions(acls, dynacls, "catalog", {"grp1"})["catalog"]
             IN  \A a \in Rights :
                    dec[a] = IF a = a2 \/ <<a2, a>> \in CodeSufficiency THEN True ELSE False

\* C2 witness: write alone on the catalog gives select.
C2_Witness ==
    /\ OnlyCatalogGrant("write")
    /\ has_right(acls, dynacls, "catalog", "select", {"grp1"}) = True
    /\ has_right(acls, dynacls, "catalog", "create", {"grp1"}) = False

\* C3: on every resource, tables included, a subject that has a right
\* sufficient for aclname has aclname.
C3_Monotone ==
    \A roles \in RoleSets :
       LET dec == Decisions(acls, dynacls, "column", roles)
       IN  \A self \in Resources, aclname \in Rights :
              \A aclname2 \in sufficient_rights[aclname] :
                 dec[self][aclname2] = True => dec[self][aclname] = True

\* C3 witness: grp1 was given write on the table, by its ACL alone, and has insert.
C3_Witness ==
    /\ acls["table"]["write"] = Some(<<"grp1">>)
    /\ acls["table"]["insert"] = Absent
    /\ has_right(acls, dynacls, "schema", "insert", {"grp1"}) # True
    /\ has_right(acls, dynacls, "table", "write", {"grp1"}) = True
    /\ has_right(acls, dynacls, "table", "insert", {"grp1"}) = True

\* C4: a subject that owns the parent of a resource has every right on the resource.
C4_OwnershipInherited ==
    \A roles \in RoleSets :
       LET dec == Decisions(acls, dynacls, "column", roles)
       IN  \A self \in Resources \ {"catalog"} :
              dec[getparent(self)]["owner"] = True
                 => \A aclname \in Rights : dec[self][aclname] = True

\* C4 witness: grp1 owns the schema, the table's owner ACL is set and empty,
\* and grp1 owns the table all the same.
C4_Witness ==
    /\ acls["schema"]["owner"] = Some(<<"grp1">>)
    /\ acls["table"]["owner"] = Some(<< >>)
    /\ has_right(acls, dynacls, "table", "owner", {"grp1"}) = True

\* The catalog's ACLs are owner = [alice] and nothing else; the schema and the
\* table have no ACLs and the table no bindings.
C5_Scenario ==
    /\ acls["catalog"] = [NoAcls EXCEPT !["owner"] = Some(<<"alice">>)]
    /\ acls["schema"] = NoAcls
    /\ acls["table"] = NoAcls
    /\ dynacls["table"] = NoDynacls

\* C5: in that scenario bob has no select on the table and alice owns it.
C5_Inheritance ==
    C5_Scenario =>
       /\ has_right(acls, dynacls, "table", "select", {"bob"}) = False
       /\ has_right(acls, dynacls, "table", "owner", {"alice"}) = True

\* C5 witness: the scenario after calls were made, with both decisions as claimed.
C5_Witness ==
    /\ C5_Scenario
    /\ ncalls > 0
    /\ has_right(acls, dynacls, "table", "select", {"bob"}) = False
    /\ has_right(acls, dynacls, "table", "owner", {"alice"}) = True

\* The table's write ACL is [grp1].
C6_WriteSet == acls["table"]["write"] = Some(<<"grp1">>)

\* C6 as stated: with write = [grp1] on the table, the catalog owned by alice
\* and no ACLs on the schema, grp1 has insert on the table.
C6_Original ==
    ( /\ C6_WriteSet
      /\ acls["catalog"]["owner"] = Some(<<"alice">>)
      /\ acls["schema"] = NoAcls )
    => has_right(acls, dynacls, "table", "insert", {"grp1"}) = True

\* C6: with write = [grp1] on the table, grp1 has insert on the table when it
\* has enumerate on the table's schema, and is denied otherwise.
C6_Sufficiency ==
    C6_WriteSet =>
       has_right(acls, dynacls, "table", "insert", {"grp1"})
          = IF has_right(acls, dynacls, "schema", "enumerate", {"grp1"}) = True
            THEN True ELSE False

\* C6 witness: grp1 only enumerates the schema, and write on the table gives it insert.
C6_Witness ==
    /\ C6_WriteSet
    /\ has_right(acls, dynacls, "schema", "insert", {"grp1"}) = False
    /\ has_right(acls, dynacls, "schema", "enumerate", {"grp1"}) = True
    /\ has_right(acls, dynacls, "table", "insert", {"grp1"}) = True

\* C7: when no static rule grants aclname on the table and a binding of the
\* table lists aclname among its types, has_right is None.  The subject has
\* enumerate on the schema, so Table.has_right consults the table's rules.
\* Stated for the data rights; owner, which no other right is sufficient for,
\* is left aside.
C7_DynamicIndeterminate ==
    \A aclname \in Rights \ {"owner"}, roles \in RoleSets, b \in BindingNames :
       ( /\ dynacls["table"][b] # Absent
         /\ aclname \in SeqToSet(dynacls["table"][b][1].types)
         /\ has_right(acls, dynacls, "schema", "enumerate", roles) = True
         /\ has_right(acls, dynacls, "table", aclname, roles) # True )
       => has_right(acls, dynacls, "table", aclname, roles) = None

\* ACL lists of a resource that hold the wildcard.
HoldsWildcard(self, aclname) == "*" \in acl_members(acls, self, aclname)

\* C8 as stated: an ACL that holds "*" grants its right to every role set,
\* explicitly passed ones included.
C8_Original ==
    \A self \in Resources, aclname \in Rights :
       HoldsWildcard(self, aclname) =>
          \A roles \in RoleSets \cup {ContextRoles(attributes)} :
             has_right(acls, dynacls, self, aclname, roles) = True

\* C8: "*" is implied only for roles taken from the request context.  For
\* those, and for explicit role sets that hold "*", an ACL that holds "*"
\* grants its right, except on a table whose schema is not enumerable to them,
\* where the right is denied.
C8_Wildcard ==
    \A self \in Resources, aclname \in Rights :
       HoldsWildcard(self, aclname) =>
          \A roles \in {rs \in RoleSets : "*" \in rs} \cup {ContextRoles(attributes)} :
             has_right(acls, dynacls, self, aclname, roles)
                = IF self = "table" /\ has_right(acls, dynacls, "schema", "enumerate", roles) # True
                  THEN False ELSE True

\* C8 witness: select = ["*"] on the catalog grants the client, not the explicit {bob}.
C8_Witness ==
    /\ HoldsWildcard("catalog", "select")
    /\ attributes = {"grp1"}
    /\ has_right(acls, dynacls, "catalog", "select", ContextRoles(attributes)) = True
    /\ has_right(acls, dynacls, "catalog", "select", {"bob"}) = False

\* The step is a call op(self, aclname) made by a client who owns self.
OwnerCalls(ops, self, aclname) ==
    /\ ncalls' = ncalls + 1
    /\ last'.op \in ops
    /\ last'.self = self
    /\ last'.aclname = aclname
    /\ enforce_right(acls, dynacls, self, "owner", attributes) = "none"

\* One owner's set_acl or delete_acl on a supported name n of self: when it
\* returns, n reads as the members given (null after a delete or a set to
\* None) and the stored row says the same; every other name reads as before.
C9_Call(self, n) ==
    OwnerCalls({"set_acl", "delete_acl"}, self, n) =>
       /\ last'.raised = "none" =>
             /\ AclDict_getitem(acls', self, n) = [raised |-> "none", ret |-> last'.members]
             /\ acl_store'[self][n] = last'.members
       /\ \A m \in _acls_supported(self) \ {n} :
             /\ AclDict_getitem(acls', self, m) = AclDict_getitem(acls, self, m)
             /\ acl_store'[self][m] = acl_store[self][m]

\* C9: ACL round trip.  Every owner's set_acl / delete_acl on a supported name
\* that returns leaves that name reading as the list it set (null once
\* deleted), in memory and in the store, and the other names as they were; the
\* stored rows change by such calls only, and introspect reads them back.  So
\* after any sequence of them a name reads as its last set_acl said, null if a
\* delete followed.
C9_RoundTrip ==
    [][ /\ \A self \in Resources : \A n \in _acls_supported(self) : C9_Call(self, n)
        /\ acl_store' # acl_store =>
              /\ ncalls' = ncalls + 1
              /\ last'.op \in {"set_acl", "delete_acl"}
              /\ last'.raised = "none"
        /\ acls' # acls =>
              \/ ncalls' = ncalls + 1 /\ last'.op \in {"set_acl", "delete_acl"}
              \/ acls' = acl_store
      ]_vars

\* C9 witness: an owner replaced a list by another, and the name reads as the new one.
C9_Witness ==
    /\ last.op = "set_acl"
    /\ last.raised = "none"
    /\ last.members = Some(<<"grp1">>)
    /\ last.ret = Some(<<"*">>)
    /\ AclDict_getitem(acls, last.self, last.aclname).ret = Some(<<"grp1">>)

\* What a call on a name the class does not support raises.
UnsupportedRaises(call) ==
    CASE call.op = "get_acl" -> "NotFound"
      [] call.op = "set_acl" /\ call.members # Absent -> "ConflictData"
      [] OTHER -> "NotFound"

\* C10: INVALID is supported by no class and owner not by a column; for an
\* owner, reading an unsupported name raises NotFound, set_acl with a list
\* raises ConflictData and delete_acl raises NotFound, and the ACLs in memory
\* and in the store stay as they were.
C10_Unsupported ==
    [][ /\ \A self \in Resources : "INVALID" \notin _acls_supported(self)
        /\ "owner" \notin _acls_supported("column")
        /\ \A self \in Resources : \A n \in AclNames \ _acls_supported(self) :
              OwnerCalls({"get_acl", "set_acl", "delete_acl"}, self, n) =>
                 /\ last'.raised = UnsupportedRaises(last')
                 /\ acls' = acls
                 /\ acl_store' = acl_store
      ]_vars

\* C10 witness: the owner's set_acl of owner on the column was refused as a conflict.
C10_Witness ==
    /\ last.op = "set_acl"
    /\ last.self = "column"
    /\ last.aclname = "owner"
    /\ last.members # Absent
    /\ last.raised = "ConflictData"
    /\ attributes = {"alice"}
    /\ acls["column"] = NoAcls

\* The step is a call op(self, aclname) made by a client whose owner decision
\* on self is False.
NonOwnerCalls(ops, self, aclname) ==
    /\ ncalls' = ncalls + 1
    /\ last'.op \in ops
    /\ last'.self = self
    /\ last'.aclname = aclname
    /\ has_right(acls, dynacls, self, "owner", ContextRoles(attributes)) = False

C12_NoSelfDisowning ==
    [][ \A self \in Resources : \A n \in _acls_supported(self) :
           OwnerCalls({"set_acl", "delete_acl"}, self, n) =>
              /\ has_right(acls', dynacls, self, "owner", ContextRoles(attributes)) # True
                    => last'.raised = "Forbidden"
              /\ ( /\ self \in {"schema", "table"}
                   /\ n = "owner"
                   /\ last'.members = Some(<< >>)
                   /\ has_right(acls, dynacls, getparent(self), "owner",
                                ContextRoles(attributes)) = True )
                    => last'.raised = "none"
      ]_vars


\* What a reintrospection would load from the annotation table.
LoadedAnnotations(store) == annotation_introspect_helper(store, NoAnnotations)

\* C13: annotation writes are an idempotent upsert.  The annotation table
\* holds at most one row per (resource, key).  A successful set_annotation
\* leaves the key with the value it was given and returns the value the key
\* had before, or None when it inserted the row; the other keys keep their
\* values.  After a successful delete_annotation the key (every key of the
\* resource when the key is None) is gone, so that the read of the
\* reintrospected Model raises NotFound.
C13_Upsert ==
    [][
        /\ \A self \in AnnotatedResources, key \in AnnotationKeys :
              Cardinality(annotation_where(annotation_store', self, key)) <= 1
        /\ (ncalls' = ncalls + 1 /\ last'.raised = "none" /\ last'.op = "set_annotation")
              => LET before == LoadedAnnotations(annotation_store)
                     after == LoadedAnnotations(annotation_store')
                 IN  /\ after[last'.self][last'.aclname] = last'.members
                     /\ last'.ret = before[last'.self][last'.aclname]
                     /\ \A self \in AnnotatedResources, key \in AnnotationKeys :
                           <<self, key>> # <<last'.self, last'.aclname>>
                              => after[self][key] = before[self][key]
        /\ (ncalls' = ncalls + 1 /\ last'.raised = "none" /\ last'.op = "delete_annotation")
              => LET before == LoadedAnnotations(annotation_store)
                     after == LoadedAnnotations(annotation_store')
                 IN  \A self \in AnnotatedResources, key \in AnnotationKeys :
                        IF self = last'.self /\ last'.aclname \in {key, NullName}
                        THEN AltDict_getitem(after[self], key).raised = "NotFound"
                        ELSE after[self][key] = before[self][key]
        /\ (last'.op = "get_annotation" /\ annotations' = LoadedAnnotations(annotation_store'))
              => (last'.raised = "NotFound"
                    <=> annotation_where(annotation_store', last'.self, last'.aclname) = {})
        /\ (ncalls' = ncalls + 1 /\ last'.raised = "Forbidden")
              => annotation_store' = annotation_store
    ]_vars

\* The second set_annotation of a key replaces the value and returns the first.
C13_Witness ==
    /\ last.op = "set_annotation"
    /\ last.raised = "none"
    /\ last.ret # Absent
    /\ last.ret # last.members
    /\ Len(annotation_store) = 1


\* The statements that change the database: everything but the version ticks.
SideEffects == {"UPDATE", "INSERT", "DELETE", "ALTER TABLE"}

TickPositions(stmts) == {i \in DOMAIN stmts : stmts[i] = "model_change_event"}

\* A completed call of each mutating operation of the ACL interface, with and
\* without a row to update.
MetadataCalls ==
    {Call(op, "table", "owner", members, "none", ret) :
        op \in MetadataSetters \cup MetadataDeleters,
        members \in {Absent, Some(<<"*">>)},
        ret \in {Absent, Some(<<"*">>)}}

DynaclLoads == {"introspect_dynacl_helper", "introspect"}

\* C15: a stored binding whose AclBinding construction fails makes the load
\* fail with that error; a load that returns has compiled and kept every
\* stored binding.
C15_NeverSilent ==
    applied.fn \in DynaclLoads =>
        LET failing == {i \in DOMAIN applied.input :
                           AclBinding("table", applied.input[i].binding) # "none"}
        IN  /\ failing # {} => applied.result.raised # "none"
            /\ applied.result.raised = "none" =>
                  \A i \in DOMAIN applied.input :
                     applied.result.dynacls[applied.input[i].binding_name]
                        = Some(applied.input[i].binding)


\* The rows whose column rids are all in the column index.
Resolvable(lists) ==
    \A k \in DOMAIN lists : \A i \in DOMAIN lists[k] : lists[k][i] \in DOMAIN ColumnIndex

\* The unique rows that cover the column-set of an earlier unique row.
DuplicateUniques(rows) ==
    {j \in DOMAIN rows :
        \E i \in 1..(j-1) :
           /\ Resolvable(<<rows[i].column_rids, rows[j].column_rids>>)
           /\ SeqToSet(rows[i].column_rids) = SeqToSet(rows[j].column_rids)}

\* The reference rows whose referenced column-set no unique covers.
Dangling(rows) ==
    {j \in DOMAIN rows :
        /\ Resolvable(<<rows[j].fk_col_rids, rows[j].pk_col_rids>>)
        /\ \A k \in CatalogKeys : k.columns # SeqToSet(rows[j].pk_col_rids)}

\* The reference rows that repeat the fk -> pk map of an earlier reference row.
DuplicateReferences(rows) ==
    {j \in DOMAIN rows :
        \E i \in 1..(j-1) :
           /\ Resolvable(<<rows[i].fk_col_rids, rows[i].pk_col_rids,
                            rows[j].fk_col_rids, rows[j].pk_col_rids>>)
           /\ SeqToSet(rows[i].fk_col_rids) = SeqToSet(rows[j].fk_col_rids)
           /\ zip_dict(rows[i].fk_col_rids, rows[i].pk_col_rids)
                 = zip_dict(rows[j].fk_col_rids, rows[j].pk_col_rids)}

Least(S) == CHOOSE j \in S : \A k \in S : j <= k

\* C16 as stated: a duplicate constraint fails the load with ConflictModel.
C16_Original ==
    /\ (applied.fn = "introspect_uniques" /\ DuplicateUniques(applied.input.rows) # {})
          => applied.result.raised = "ConflictModel"
    /\ (applied.fn = "introspect_fkrs" /\ DuplicateReferences(applied.input) # {}
          /\ Dangling(applied.input) = {})
          => applied.result.raised = "ConflictModel"

\* C16 (amended): a unique row (real or pseudo) on the column-set of an
\* earlier unique row, or a reference row with the fk -> pk map of an earlier
\* reference row, fails the whole load with ValueError.  The message carries
\* the constraint_name of the later row (None for an unnamed pseudo
\* constraint) and the names of the earlier constraint, and no Model is
\* returned.  Without such a row the load raises no ValueError.
C16_Duplicates ==
    /\ applied.fn = "introspect_uniques" =>
          LET rows == applied.input.rows
              dups == DuplicateUniques(rows)
          IN  IF dups = {} THEN applied.result.raised # "ValueError"
              ELSE LET j == Least(dups)
                       i == CHOOSE i \in 1..(j-1) :
                               SeqToSet(rows[i].column_rids) = SeqToSet(rows[j].column_rids)
                   IN  /\ applied.result.raised = "ValueError"
                       /\ applied.result.message
                             = <<rows[j].constraint_name, name_pair(rows[i], i)>>
                       /\ applied.result.found = {}
    /\ applied.fn = "introspect_fkrs" =>
          LET rows == applied.input
              dups == DuplicateReferences(rows)
              stops == dups \cup Dangling(rows)
          IN  IF dups = {} \/ Least(stops) \in Dangling(rows)
              THEN applied.result.raised # "ValueError"
              ELSE LET j == Least(stops)
                       i == CHOOSE i \in 1..(j-1) :
                               /\ Resolvable(<<rows[i].fk_col_rids, rows[i].pk_col_rids>>)
                               /\ SeqToSet(rows[i].fk_col_rids) = SeqToSet(rows[j].fk_col_rids)
                               /\ zip_dict(rows[i].fk_col_rids, rows[i].pk_col_rids)
                                     = zip_dict(rows[j].fk_col_rids, rows[j].pk_col_rids)
                   IN  /\ applied.result.raised = "ValueError"
                       /\ applied.result.message
                             = <<rows[j].constraint_name, name_pair(rows[i], i)>>
                       /\ applied.result.found = {}

\* An unnamed pseudo unique on the column-set of a real unique stops the load.
C16_Witness ==
    /\ applied.fn = "introspect_uniques"
    /\ applied.result.raised = "ValueError"
    /\ Len(applied.input.rows) = 2
    /\ ~applied.input.rows[1].pseudo
    /\ applied.input.rows[2].pseudo
    /\ applied.result.message[1] = NullName


\* C17: in a Model the reference load returns, the reference map of every
\* KeyReference is a bijection between the foreign key's column-set and the
\* referenced unique's column-set, which therefore have equal cardinality.
C17_Bijection ==
    (applied.fn = "introspect_fkrs" /\ applied.result.raised = "none") =>
        \A r \in applied.result.found :
           /\ {pair[1] : pair \in r.reference_map} = r.foreign_key
           /\ {pair[2] : pair \in r.reference_map} = r.unique
           /\ \A p, q \in r.reference_map : (p[1] = q[1] <=> p[2] = q[2])
           /\ Cardinality(r.foreign_key) = Cardinality(r.unique)


\* The primary keys of a table among loaded uniques.
primary_keys(table, pkeys) == {k \in table_uniques(table, pkeys) : is_primary_key(k)}

\* The column-sets of T1 that the unique rows cover with not-null columns only.
NotNullColsets(rows) ==
    {SeqToSet(rows[j].column_rids) : j \in
        {j \in DOMAIN rows :
            /\ Resolvable(<<rows[j].column_rids>>)
            /\ \A i \in DOMAIN rows[j].column_rids :
                  /\ ColumnIndex[rows[j].column_rids[i]].table = "T1"
                  /\ ~ColumnIndex[rows[j].column_rids[i]].nullok}}

C19_Truncated ==
    applied.fn = "truncated_identifier" =>
        /\ applied.result.raised = "none"
        /\ applied.result.length <= 63

\* C20: the ts predicate wraps the column expression of its left side in
\* to_tsvector(...) and its literal in to_tsquery(...), joined by @@, for a
\* single column and for each member of a column set.
C20_Textsearch ==
    (applied.fn = "sql_where" /\ applied.input.operator = "ts") =>
        applied.result.clauses =
            { <<"(">> \o <<"to_tsvector", "(">> \o sql_name_astext(applied.input.talias, c)
                      \o <<")">> \o <<"@@">>
                      \o <<"to_tsquery", "(", "'", applied.input.operand, "'", "::", "text", ")">>
                      \o <<")">> : c \in applied.input.left_col }


\* C21: for every non-empty list of binding clauses, the positive filter
\* keeps the row exactly when some clause is TRUE and the negative filter
\* exactly when none is, so exactly one of the two keeps it.
C21_Partition ==
    applied.fn = "sql_name" =>
        LET clauses == applied.input.clauses
            some == \E i \in DOMAIN clauses : clauses[i] = "TRUE"
        IN  /\ applied.result.selected = (IF applied.input.dynauthz THEN some ELSE ~some)
            /\ sql_name(TRUE, clauses) = some
            /\ sql_name(FALSE, clauses) = ~some
            /\ sql_name(TRUE, clauses) # sql_name(FALSE, clauses)

\* The negative filter keeps a row whose clauses are NULL and FALSE.
C21_Witness ==
    /\ applied.fn = "sql_name"
    /\ ~applied.input.dynauthz
    /\ applied.input.clauses = <<"NULL", "FALSE">>
    /\ applied.result.selected


\* C22: delete_column requires the owner right and the column; when either
\* is missing it raises (Forbidden, else ConflictModel), pre-deletes nothing,
\* emits no DDL and leaves the columns as they were.  Otherwise it pre-deletes
\* the table's uniques that contain the column, then its foreign keys that
\* contain it, then the column, then emits DROP COLUMN, and removes the column
\* from the table in memory last.
C22_DeleteColumn ==
    [][
        (ncalls' = ncalls + 1 /\ last'.op = "delete_column") =>
            LET cname == last'.aclname
                forbidden == enforce_right(acls, dynacls, "table", "owner", attributes)
                                = "Forbidden"
            IN  IF forbidden \/ columns[cname] = Absent
                THEN /\ last'.raised = (IF forbidden THEN "Forbidden" ELSE "ConflictModel")
                     /\ last'.ret = << >>
                     /\ UNCHANGED <<columns, column_store, version>>
                ELSE /\ last'.raised = "none"
                     /\ [i \in DOMAIN last'.ret |-> last'.ret[i].step]
                           = <<"unique.pre_delete", "fkey.pre_delete", "column.pre_delete",
                               "DROP COLUMN", "del self.columns[cname]">>
                     /\ last'.ret[1].of = {k \in TableUniques : cname \in k}
                     /\ last'.ret[2].of = {k \in TableFkeys : cname \in k}
                     /\ \A i \in 3..5 : last'.ret[i].of = {{cname}}
                     /\ columns' = [columns EXCEPT ![cname] = Absent]
                     /\ \A i \in DOMAIN column_store' : column_store'[i] # cname
    ]_vars

\* The owner has deleted column id, which two uniques contain.
C22_Witness ==
    /\ last.op = "delete_column"
    /\ last.raised = "none"
    /\ last.aclname = "id"
    /\ last.ret[1].of = {{"id"}, {"id", "name"}}
    /\ columns["id"] = Absent

\* C23: the column add_column returns has a position greater than that of
\* every other column of the table, so positions stay pairwise distinct.
C23_Rightmost ==
    /\ (last.op = "add_column" /\ last.raised = "none") =>
          \A c \in ColumnNames \ {last.aclname} :
             columns[c] # Absent => columns[c][1] < columns[last.aclname][1]
    /\ \A c, d \in ColumnNames :
          (c # d /\ columns[c] # Absent /\ columns[d] # Absent) => columns[c] # columns[d]


\* C24: in the type-loading loop of introspect, the add_* call of every array
\* type and of every domain type comes after the add_* call of the type it is
\* built on.
C24_ElementFirst ==
    applied.fn = "introspect_types" =>
        \A i \in TypeRids :
            applied.result[i].element # 0 =>
                \E j \in 1..(i - 1) : applied.result[j].rid = applied.result[i].element


\* C25: has_right ends and returns True, False or None for every resource,
\* right and role set: the rights can be listed so that every right comes after
\* the rights sufficient for it (no right is sufficient for itself, directly or
\* through others), and every parent chain reaches a resource without parent
\* within as many steps as there are resources.
C25_Terminates ==
    LET RECURSIVE chain_ends(_, _)
        chain_ends(self, n) ==
            IF self = NoParent THEN TRUE
            ELSE IF n = 0 THEN FALSE
            ELSE chain_ends(getparent(self), n - 1)
    IN  /\ {RightOrder[i] : i \in DOMAIN RightOrder} = Rights
        /\ \A i \in DOMAIN RightOrder : \A aclname2 \in sufficient_rights[RightOrder[i]] :
              \E j \in 1..(i - 1) : RightOrder[j] = aclname2
        /\ \A self \in Resources : chain_ends(self, Cardinality(Resources))
        /\ \A roles \in RoleSets \cup {ContextRoles(attributes)} :
              LET decisions == Decisions(acls, dynacls, "column", roles)
              IN  \A self \in Resources, aclname \in Rights :
                     decisions[self][aclname] \in {True, False, None}

\* A column at the end of the longest parent chain is decided in each of the
\* three ways.
C25_Witness ==
    /\ \E roles \in RoleSets : has_right(acls, dynacls, "column", "select", roles) = None
    /\ \E roles \in RoleSets : has_right(acls, dynacls, "column", "select", roles) = True
    /\ \E roles \in RoleSets : has_right(acls, dynacls, "column", "select", roles) = False


\* C26: has_right(r, 'owner', roles) is True or False, never None, for every
\* resource and role set, whatever the ACLs and bindings are; so
\* enforce_right('owner') refuses exactly those whom no static rule makes owner.
C26_OwnerDecided ==
    \A roles \in RoleSets \cup {ContextRoles(attributes)} :
        LET decisions == Decisions(acls, dynacls, "column", roles)
        IN  \A self \in Resources : decisions[self]["owner"] \in {True, False}

\* A binding of type owner sits on the table, grp1 enumerates the schema, and
\* grp1 is statically denied ownership of the table.
C26_Witness ==
    /\ \E b \in BindingNames :
          /\ dynacls["table"][b] # Absent
          /\ "owner" \in SeqToSet(dynacls["table"][b][1].types)
    /\ has_right(acls, dynacls, "schema", "enumerate", {"grp1"}) = True
    /\ has_right(acls, dynacls, "table", "owner", {"grp1"}) = False

\* C27: when the schema's enumerate decision for a role set is not True, the
\* table's decision is False for every right, whatever the table's own ACLs
\* and bindings are.
C27_SchemaGate ==
    \A roles \in RoleSets \cup {ContextRoles(attributes)} :
        LET decisions == Decisions(acls, dynacls, "table", roles)
        IN  decisions["schema"]["enumerate"] # True =>
               \A aclname \in Rights : decisions["table"][aclname] = False

\* The table's select ACL names grp1 and the table carries a binding, but
\* grp1 does not enumerate the schema: select on the table is denied.
C27_Witness ==
    /\ "grp1" \in acl_members(acls, "table", "select")
    /\ \E b \in BindingNames : dynacls["table"][b] # Absent
    /\ has_right(acls, dynacls, "schema", "enumerate", {"grp1"}) # True
    /\ has_right(acls, dynacls, "table", "select", {"grp1"}) = False


\* C28: an ACL present on a resource, an empty one included, keeps the parent's
\* decision for that right from being inherited: for a subject who does not
\* own the parent, the right is then granted only through a right sufficient
\* for it on the resource or through a member of the ACL among the roles.
\* Where a right is granted in neither way and not by parent ownership, the
\* resource has no ACL for it and the parent grants it.
C28_ExplicitBlocks ==
    \A roles \in RoleSets \cup {ContextRoles(attributes)} :
        LET decisions == Decisions(acls, dynacls, "column", roles)
        IN  \A self \in Resources \ {"catalog"}, aclname \in Rights :
               LET parentdec == decisions[getparent(self)]
                   own == \/ \E aclname2 \in sufficient_rights[aclname] :
                                decisions[self][aclname2] = True
                          \/ acl_members(acls, self, aclname) \cap roles # {}
               IN  (decisions[self][aclname] = True /\ parentdec["owner"] # True) =>
                      IF has_acl(acls, self, aclname) THEN own
                      ELSE own \/ parentdec[aclname] = True

\* The catalog grants select to grp1, the schema's select ACL is the empty
\* list, and grp1 is denied select on the schema.
C28_Witness ==
    /\ acls["schema"]["select"] = Some(<< >>)
    /\ has_right(acls, dynacls, "catalog", "select", {"grp1"}) = True
    /\ has_right(acls, dynacls, "catalog", "owner", {"grp1"}) = False
    /\ has_right(acls, dynacls, "schema", "select", {"grp1"}) = False


\* C29: a set_acl that raises Forbidden (at the pre-flight check or at the
\* integrity check after the assignment) or the conflict for an unsupported
\* name leaves the resource's ACLs in memory as they were, writes nothing to
\* the store and fires no model change event.
C29_FailedUnchanged ==
    [][
        ( /\ ncalls' = ncalls + 1
          /\ last'.op = "set_acl"
          /\ last'.raised \in {"Forbidden", "ConflictData"} )
        => UNCHANGED <<acls, acl_store, version>>
    ]_vars


\* C30: decisions are monotone in the role set.  For role sets roles within
\* roles2, a right granted to roles is granted to roles2, and a right
\* undetermined for roles is granted to or undetermined for roles2.  Checked
\* for each role added to a role set, from which it follows along any chain.
C30_Monotone ==
    LET none == Decisions(acls, dynacls, "column", {})
        grp == Decisions(acls, dynacls, "column", {"grp1"})
        star == Decisions(acls, dynacls, "column", {"*"})
        grpstar == Decisions(acls, dynacls, "column", {"grp1", "*"})
        alice == Decisions(acls, dynacls, "column", {"alice"})
        alicegrp == Decisions(acls, dynacls, "column", {"alice", "grp1"})
        \* d is decided for roles, d2 for a role set that includes roles
        Monotone(d, d2) ==
            \A self \in Resources, aclname \in Rights :
               /\ d[self][aclname] = True => d2[self][aclname] = True
               /\ d[self][aclname] = None => d2[self][aclname] \in {True, None}
    IN  /\ Monotone(none, grp)
        /\ Monotone(none, star)
        /\ Monotone(none, alice)
        /\ Monotone(grp, grpstar)
        /\ Monotone(star, grpstar)
        /\ Monotone(grp, alicegrp)
        /\ Monotone(alice, alicegrp)

\* grp1 enumerates the schema with and without the wildcard, select on the
\* table is undetermined for grp1 with and without it, and the wildcard turns
\* some denial into a grant or grp1 alone is denied what it is not given.
C30_Witness ==
    /\ has_right(acls, dynacls, "schema", "enumerate", {"grp1"}) = True
    /\ has_right(acls, dynacls, "schema", "enumerate", {"grp1", "*"}) = True
    /\ has_right(acls, dynacls, "table", "select", {"grp1"}) = None
    /\ has_right(acls, dynacls, "table", "select", {"grp1", "*"}) = None
    /\ has_right(acls, dynacls, "table", "owner", {"grp1"}) = False

=============================================================================
